---- MODULE Spec2Model ----
(***************************************************************************)
(* Model of memory/BufferAllocator.c: a bump allocator that carves blocks  *)
(* from one caller-supplied buffer, keeps a chain of on-free jobs inside   *)
(* the same buffer and reclaims everything in freeAllocator.               *)
(*                                                                         *)
(* Addresses are unsigned words of AddrBits bits; every pointer sum is     *)
(* taken modulo AddrSpace, as the machine does.  The structure sizes are   *)
(* scaled to that word: they stay multiples of ALIGNMENT, as sizeof does.  *)
(* The uint32_t casts of allocatorRealloc are taken at the same width.     *)
(*                                                                         *)
(* status tells how far the program got: "unborn" before construction,     *)
(* "null" when construction returned NULL, "live" while the handle can be  *)
(* used, "aborted" after Except_raise without a handler or a failed        *)
(* Assert_always, and "corrupt" once a library call (memcpy, memset) wrote *)
(* outside the free part of the buffer: over the control block, over a     *)
(* linked Job or past the buffer.  What the program does after the call    *)
(* that made such a write is not modelled.                                 *)
(*                                                                         *)
(* freeAllocator runs callbacks, which are code of the caller and may call *)
(* cancel on any job; so it is modelled in steps: its entry up to the      *)
(* first callback, the cancels a running callback issues, and the return   *)
(* of a callback up to the next one or to the end of freeAllocator.        *)
(***************************************************************************)
EXTENDS Integers, Sequences, FiniteSets, TLC

\* ---------------------------------------------------------------- bounds
AddrBits == 5
MaxJobs == 2
MaxFrees == 1
MaxAllocs == 2

\* ------------------------------------------------------ program constants
ALIGNMENT == 4
SizeofBufferAllocator == 8
SizeofJob == 4
OUT_OF_MEMORY == -1
OVERFLOW == -2
NULL == 0

AddrSpace == 2 ^ AddrBits
Addr == 0 .. (AddrSpace - 1)
NoBlock == AddrSpace

\* ------------------------------------------------- inputs of the callers
Buffers == {5, AddrSpace - 4}
Lengths == {3, 24, AddrSpace - 2}
Sizes == {1, 13, AddrSpace - 3}
CallocSizes == {2, AddrSpace \div 2}
Counts == {2}
Handlers == {"exits", "returns"}

VARIABLES
    status,         \* "unborn", "null", "live", "aborted", "corrupt"
    basePointer,    \* struct BufferAllocator.basePointer
    pointer,        \* struct BufferAllocator.pointer
    endPointer,     \* struct BufferAllocator.endPointer
    onFree,         \* struct BufferAllocator.onFree: address of the first Job
    onOOM,          \* struct BufferAllocator.onOOM: "none" or a handler
    jobs,           \* the Job records in memory: address -> [cb, next]
    pc,             \* "idle", or "callback" while freeAllocator runs a job
    cur,            \* freeAllocator's local variable job
    invoked,        \* history: callbacks the latest freeAllocator invoked
    cancelledFirst, \* history: callbacks cancelled while not in invoked
    nextId,         \* history: number of registrations so far + 1
    frees,          \* history: number of completed freeAllocator calls
    allocs,         \* history: blocks handed out without error since reset
    firstAddr,      \* history: address of the first allocate after construct
    fresh,          \* history: no block requested since construct / free
    nAllocs,        \* history: calls of the allocating operations so far
    raised,         \* observation: codes the most recent call raised
    last            \* observation: the most recent call, when it was
                    \* allocatorRealloc

vars == <<status, basePointer, pointer, endPointer, onFree, onOOM, jobs, pc,
          cur, invoked, cancelledFirst, nextId, frees, allocs,
          firstAddr, fresh, nAllocs, raised, last>>

arena == <<basePointer, pointer, endPointer>>
NoCall == [op |-> "other", arg |-> NULL, out |-> 0]
chain == <<onFree, jobs>>
history == <<invoked, cancelledFirst, nextId, frees, allocs,
             firstAddr, fresh, nAllocs>>

\* ------------------------------------------------------- pure functions

\* getAligned without the rounding: the pointer is returned as it is.
getAligned_unrounded(p, alignedOn) == p

\* (uintptr_t)(pointer + alignedOn - 1) & ~(alignedOn - 1)
getAligned(p, alignedOn) ==
    LET up == (p + alignedOn - 1) % AddrSpace
    IN  up - (up % alignedOn)

\* What Except_raise does with the handler it is given: without a handler
\* the process dies; a handler either leaves by a non-local exit or returns.
Except_raise(handler) ==
    CASE handler = "none"    -> "aborted"
      [] handler = "exits"   -> "unwound"
      [] handler = "returns" -> "resumed"

\* allocatorMalloc on cursor ptr: the block returned (or NoBlock), the new
\* cursor, the codes raised in order, and how the call ended.
allocatorMalloc(ptr, endP, handler, length) ==
    LET p == getAligned(ptr, ALIGNMENT)
        endOfAlloc == (p + length) % AddrSpace
        oom == endOfAlloc >= endP
        ovf == endOfAlloc < ptr
        r1 == IF oom THEN <<OUT_OF_MEMORY>> ELSE <<>>
        r2 == IF ovf THEN r1 \o <<OVERFLOW>> ELSE r1
    IN  IF oom /\ Except_raise(handler) # "resumed"
        THEN [fate |-> Except_raise(handler), ret |-> NoBlock,
              pointer |-> ptr, raised |-> r1]
        ELSE IF ovf /\ Except_raise(handler) # "resumed"
        THEN [fate |-> Except_raise(handler), ret |-> NoBlock,
              pointer |-> ptr, raised |-> r2]
        ELSE [fate |-> "returned", ret |-> p,
              pointer |-> endOfAlloc, raised |-> r2]

\* The bytes [p, p + n) of the address space.
Bytes(p, n) == {(p + i) % AddrSpace : i \in 0 .. (n - 1)}

RECURSIVE ChainFrom(_, _)
\* The Job addresses met by following next from address a.
ChainFrom(mem, a) ==
    IF a = NULL THEN <<>> ELSE <<a>> \o ChainFrom(mem, mem[a].next)

Range(s) == {s[i] : i \in DOMAIN s}

Min(x, y) == IF x < y THEN x ELSE y

\* Bytes library calls (memset, memcpy) may write without destroying the
\* control block, a linked Job or memory outside the buffer.
Writable ==
    ({x \in Addr : basePointer <= x /\ x < endPointer}
        \ Bytes(basePointer, SizeofBufferAllocator))
        \ UNION {Bytes(j, SizeofJob) : j \in Range(ChainFrom(jobs, onFree))}

WriteOK(p, n) == Bytes(p, n) \subseteq Writable

\* ---------------------------------------------------------------- Init
Init ==
    /\ status = "unborn"
    /\ basePointer = 0
    /\ pointer = 0
    /\ endPointer = 0
    /\ onFree = NULL
    /\ onOOM = "none"
    /\ jobs = <<>>
    /\ pc = "idle"
    /\ cur = NULL
    /\ invoked = <<>>
    /\ cancelledFirst = {}
    /\ nextId = 1
    /\ frees = 0
    /\ allocs = <<>>
    /\ firstAddr = NoBlock
    /\ fresh = TRUE
    /\ nAllocs = 0
    /\ raised = <<>>
    /\ last = NoCall

\* ----------------------------------------------------------- construct

\* The control block lies inside the caller's buffer [buffer, buffer+length).
ControlBlockFits(buffer, length) ==
    LET start == buffer + ((ALIGNMENT - (buffer % ALIGNMENT)) % ALIGNMENT)
    IN  /\ buffer + length <= AddrSpace
        /\ start + SizeofBufferAllocator <= buffer + length

\* BufferAllocator_newWithIdentity(buffer, length, file, line)
BufferAllocator_newWithIdentity(buffer, length) ==
    LET tempPointer == getAligned(buffer, ALIGNMENT)
        tempEnd == (buffer + length) % AddrSpace
        refused ==
            \/ tempEnd < tempPointer
            \/ tempEnd < (tempPointer + SizeofBufferAllocator) % AddrSpace
    IN  /\ status = "unborn"
        /\ raised' = <<>>
        /\ last' = NoCall
        /\ IF refused
           THEN /\ status' = "null"
                /\ UNCHANGED arena
           ELSE /\ basePointer' = tempPointer
                /\ endPointer' = tempEnd
                /\ pointer' = (tempPointer + SizeofBufferAllocator) % AddrSpace
                \* Bits_memcpyConst outside the buffer: it may fault or not.
                /\ \/ status' = "live"
                   \/ ~ControlBlockFits(buffer, length) /\ status' = "corrupt"
        /\ UNCHANGED <<onFree, onOOM, jobs, pc, cur, history>>

\* BufferAllocator_onOOM(alloc, exceptionHandler)
BufferAllocator_onOOM(handler) ==
    /\ status = "live"
    /\ pc = "idle"
    /\ onOOM = "none"
    /\ onOOM' = handler
    /\ last' = NoCall
    /\ UNCHANGED <<status, arena, chain, pc, cur, history, raised>>

\* ------------------------------------------- the allocating operations

Blocks == {i \in DOMAIN allocs : ~allocs[i].job}

\* What a call that went through allocatorMalloc leaves behind: m is
\* allocatorMalloc's outcome, written the bytes the caller of
\* allocatorMalloc then writes at the block, isJob tells a Job record.
Carve(op, size, m, written, isJob) ==
    /\ pointer' = m.pointer
    /\ status' =
          CASE m.fate = "aborted" -> "aborted"
            [] m.fate = "returned" /\ ~WriteOK(m.ret, written) -> "corrupt"
            [] OTHER -> "live"
    /\ allocs' =
          IF m.fate = "returned" /\ m.raised = <<>>
          THEN Append(allocs, [addr |-> m.ret, size |-> size, job |-> isJob])
          ELSE allocs
    /\ firstAddr' =
          IF op = "allocate" /\ fresh /\ frees = 0 /\ m.fate = "returned"
             /\ m.raised = <<>>
          THEN m.ret
          ELSE firstAddr
    /\ fresh' = FALSE
    /\ nAllocs' = IF isJob THEN nAllocs ELSE nAllocs + 1
    /\ raised' = m.raised
    /\ UNCHANGED <<basePointer, endPointer, onOOM, pc, cur, invoked,
                   cancelledFirst, frees>>

CanAllocate ==
    /\ status = "live"
    /\ pc = "idle"
    /\ nAllocs < MaxAllocs

\* Allocator_malloc -> allocatorMalloc(length, allocator, ...)
Allocate(length) ==
    /\ CanAllocate
    /\ Carve("allocate", length,
             allocatorMalloc(pointer, endPointer, onOOM, length), 0, FALSE)
    /\ last' = NoCall
    /\ UNCHANGED <<chain, nextId>>

\* An allocatorCalloc whose product stops at the largest size instead of
\* wrapping.
allocatorCalloc_saturating(length, count) ==
    LET total == Min(length * count, AddrSpace - 1)
    IN  /\ CanAllocate
        /\ Carve("calloc", total,
                 allocatorMalloc(pointer, endPointer, onOOM, total), total,
                 FALSE)
        /\ last' = NoCall
        /\ UNCHANGED <<chain, nextId>>

\* allocatorCalloc(length, count, allocator, ...)
allocatorCalloc(length, count) ==
    LET total == (length * count) % AddrSpace
    IN  /\ CanAllocate
        /\ Carve("calloc", total,
                 allocatorMalloc(pointer, endPointer, onOOM, total), total,
                 FALSE)
        /\ last' = NoCall
        /\ UNCHANGED <<chain, nextId>>

\* allocatorClone(length, allocator, toClone, ...)
allocatorClone(length) ==
    /\ CanAllocate
    /\ Carve("clone", length,
             allocatorMalloc(pointer, endPointer, onOOM, length), length,
             FALSE)
    /\ last' = NoCall
    /\ UNCHANGED <<chain, nextId>>

\* An allocatorRealloc that resizes the block where it stands.
allocatorRealloc_inPlace(original, length) ==
    LET from == IF original = NULL THEN pointer ELSE original
        m == allocatorMalloc(from, endPointer, onOOM, length)
    IN  /\ CanAllocate
        /\ Carve("realloc", length, m, 0, FALSE)
        /\ last' = [op |-> "realloc", arg |-> original, out |-> 0]
        /\ UNCHANGED <<chain, nextId>>

\* An allocatorRealloc that copies up to the size of the original block.
allocatorRealloc_copiesBlockSize(original, length) ==
    LET at == {i \in Blocks : allocs[i].addr = original}
        size == IF at = {} THEN 0 ELSE allocs[CHOOSE i \in at : TRUE].size
        amountToClone == Min(length, size)
        m == allocatorMalloc(pointer, endPointer, onOOM, length)
    IN  /\ CanAllocate
        /\ Carve("realloc", length, m, amountToClone, FALSE)
        /\ last' = [op |-> "realloc", arg |-> original,
                    out |-> IF m.fate = "returned" THEN amountToClone ELSE 0]
        /\ UNCHANGED <<chain, nextId>>

\* An allocatorRealloc that carves nothing for an empty original.
allocatorRealloc_emptyForNull(original, length) ==
    LET size == IF original = NULL THEN 0 ELSE length
        m == allocatorMalloc(pointer, endPointer, onOOM, size)
    IN  /\ CanAllocate
        /\ Carve("realloc", size, m, 0, FALSE)
        /\ last' = [op |-> "realloc", arg |-> original, out |-> 0]
        /\ UNCHANGED <<chain, nextId>>

\* allocatorRealloc(original, length, allocator, ...)
allocatorRealloc(original, length) ==
    LET amountToClone ==
            IF original = NULL THEN 0
            ELSE Min(length, (pointer - original) % AddrSpace)
        m == allocatorMalloc(pointer, endPointer, onOOM, length)
    IN  /\ CanAllocate
        /\ Carve("realloc", length, m, amountToClone, FALSE)
        /\ last' = [op |-> "realloc", arg |-> original,
                    out |-> IF m.fate = "returned" THEN amountToClone ELSE 0]
        /\ UNCHANGED <<chain, nextId>>

\* ------------------------------------------------------ free-job chain

\* appendJob linking the new Job in front of the chain instead of behind it.
appendJob_atHead(mem, head, newJob, cb) ==
    [onFree |-> newJob, jobs |-> (newJob :> [cb |-> cb, next |-> head]) @@ mem]

\* The new onFree and Job memory after the Job at address newJob, holding
\* callback cb, is appended (onFree, lines 173-191).
appendJob(mem, head, newJob, cb) ==
    LET written == (newJob :> [cb |-> cb, next |-> NULL]) @@ mem
        c == ChainFrom(mem, head)
    IN  IF head = NULL
        THEN [onFree |-> newJob, jobs |-> written]
        ELSE [onFree |-> head,
              jobs |-> [written EXCEPT ![c[Len(c)]].next = newJob]]

\* onFree(callback, callbackContext, alloc): Allocator_clone of the Job,
\* then the walk to the tail. Lines 182-191 run whenever Allocator_clone
\* returns: a Job that a returning handler let through lies past the arena
\* and is linked like any other; a Job written over the control block or
\* over a linked Job leaves a chain that is not followed here.
onFreeRegister ==
    LET m == allocatorMalloc(pointer, endPointer, onOOM, SizeofJob)
        linked == /\ m.fate = "returned"
                  /\ WriteOK(m.ret, SizeofJob) \/ m.raised # <<>>
        after == appendJob(jobs, onFree, m.ret, nextId)
    IN  /\ status = "live"
        /\ pc = "idle"
        /\ nextId <= MaxJobs
        /\ Carve("register", SizeofJob, m, SizeofJob, TRUE)
        /\ onFree' = IF linked THEN after.onFree ELSE onFree
        /\ jobs' = IF linked THEN after.jobs ELSE jobs
        /\ nextId' = IF linked THEN nextId + 1 ELSE nextId
        /\ last' = NoCall

\* A removeOnFreeJob that cuts the chain at the job instead of bridging it.
removeOnFreeJob_cutsChain(mem, head, j) ==
    LET c == ChainFrom(mem, head)
        at == {i \in DOMAIN c : c[i] = j}
        i == CHOOSE k \in at : TRUE
    IN  IF at = {}
        THEN [ret |-> -1, onFree |-> head, jobs |-> mem]
        ELSE IF i = 1
        THEN [ret |-> 0, onFree |-> NULL, jobs |-> mem]
        ELSE [ret |-> 0, onFree |-> head,
              jobs |-> [mem EXCEPT ![c[i - 1]].next = NULL]]

\* removeOnFreeJob(toRemove): the value returned and the chain afterwards.
removeOnFreeJob(mem, head, j) ==
    LET c == ChainFrom(mem, head)
        at == {i \in DOMAIN c : c[i] = j}
        i == CHOOSE k \in at : TRUE
    IN  IF at = {}
        THEN [ret |-> -1, onFree |-> head, jobs |-> mem]
        ELSE IF i = 1
        THEN [ret |-> 0, onFree |-> mem[j].next, jobs |-> mem]
        ELSE [ret |-> 0, onFree |-> head,
              jobs |-> [mem EXCEPT ![c[i - 1]].next = mem[j].next]]

\* A cancel that runs the callback of the job it unlinks.
CancelCall_runsCallback(j) ==
    LET r == removeOnFreeJob(jobs, onFree, j)
    IN  /\ status = "live"
        /\ onFree' = r.onFree
        /\ jobs' = r.jobs
        /\ invoked' = IF r.ret = 0 THEN Append(invoked, jobs[j].cb)
                      ELSE invoked
        /\ raised' = <<>>
        /\ last' = NoCall
        /\ UNCHANGED <<status, arena, onOOM, pc, cur, cancelledFirst, nextId,
                       frees, allocs, firstAddr, fresh, nAllocs>>

\* A call of job->generic.cancel, from the program or from a callback.
CancelCall(j) ==
    LET r == removeOnFreeJob(jobs, onFree, j)
        cb == jobs[j].cb
    IN  /\ status = "live"
        /\ onFree' = r.onFree
        /\ jobs' = r.jobs
        /\ cancelledFirst' =
              IF r.ret = 0 /\ cb \notin Range(invoked)
              THEN cancelledFirst \cup {cb}
              ELSE cancelledFirst
        /\ raised' = <<>>
        /\ last' = NoCall
        /\ UNCHANGED <<status, arena, onOOM, pc, cur, invoked, nextId,
                       frees, allocs, firstAddr, fresh, nAllocs>>

\* The program cancels a job between two calls.
Cancel(j) ==
    /\ pc = "idle"
    /\ CancelCall(j)

\* The callback that freeAllocator is running cancels a job.
CallbackCancel(j) ==
    /\ pc = "callback"
    /\ CancelCall(j)

\* ----------------------------------------------------------- bulk free

\* freeAllocator, lines 148-149: the loop is over.
resetPointer(log) ==
    /\ invoked' = log
    /\ pointer' = basePointer
    /\ pc' = "idle"
    /\ cur' = NULL
    /\ frees' = frees + 1
    /\ allocs' = <<>>
    /\ fresh' = TRUE
    /\ UNCHANGED nAllocs

\* freeAllocator, line 144: job->callback(job->callbackContext).
runCallback(job, log) ==
    /\ invoked' = Append(log, jobs[job].cb)
    /\ pc' = "callback"
    /\ cur' = job
    /\ UNCHANGED <<pointer, frees, allocs, fresh, nAllocs>>

\* freeAllocator(allocator, ...) up to its first callback, or to its end
\* when the chain is empty.
freeAllocator ==
    /\ status = "live"
    /\ pc = "idle"
    /\ frees < MaxFrees
    /\ IF onFree = NULL THEN resetPointer(<<>>) ELSE runCallback(onFree, <<>>)
    /\ last' = NoCall
    /\ UNCHANGED <<status, basePointer, endPointer, chain, onOOM,
                   cancelledFirst, nextId, firstAddr, raised>>

\* The running callback returns: job = job->next, then the next callback
\* or the end of freeAllocator.
CallbackReturn ==
    /\ status = "live"
    /\ pc = "callback"
    /\ IF jobs[cur].next = NULL THEN resetPointer(invoked)
       ELSE runCallback(jobs[cur].next, invoked)
    /\ last' = NoCall
    /\ UNCHANGED <<status, basePointer, endPointer, chain, onOOM,
                   cancelledFirst, nextId, firstAddr, raised>>

\* ------------------------------------------------------ hierarchy stubs

\* Assert_always(expr): a false expr ends the program.
Assert_always(expr) == IF expr THEN "passed" ELSE "aborted"

\* A childAllocator that hands back its argument.
childAllocator_returnsAlloc ==
    /\ status = "live"
    /\ pc = "idle"
    /\ raised' = <<>>
    /\ last' = NoCall
    /\ UNCHANGED <<status, arena, chain, onOOM, pc, cur, history>>

\* childAllocator(alloc, identFile, identLine): !"Unimplemented" is false.
childAllocator ==
    /\ status = "live"
    /\ pc = "idle"
    /\ status' = IF Assert_always(FALSE) = "aborted" THEN "aborted" ELSE status
    /\ raised' = <<>>
    /\ last' = NoCall
    /\ UNCHANGED <<arena, chain, onOOM, pc, cur, history>>

\* adopt(alloc, allocB, file, line): !"Unimplemented" is false.
adopt ==
    /\ status = "live"
    /\ pc = "idle"
    /\ status' = IF Assert_always(FALSE) = "aborted" THEN "aborted" ELSE status
    /\ raised' = <<>>
    /\ last' = NoCall
    /\ UNCHANGED <<arena, chain, onOOM, pc, cur, history>>

\* ----------------------------------------------------------------- Next
Next ==
    \/ \E buffer \in Buffers, length \in Lengths :
          BufferAllocator_newWithIdentity(buffer, length)
    \/ \E handler \in Handlers : BufferAllocator_onOOM(handler)
    \/ \E length \in Sizes : Allocate(length)
    \/ \E length \in CallocSizes, count \in Counts : allocatorCalloc(length, count)
    \/ \E length \in Sizes : allocatorClone(length)
    \/ \E original \in {NULL} \cup {allocs[i].addr : i \in Blocks},
          length \in Sizes : allocatorRealloc(original, length)
    \/ onFreeRegister
    \/ \E j \in DOMAIN jobs : Cancel(j)
    \/ freeAllocator
    \/ \E j \in DOMAIN jobs : CallbackCancel(j)
    \/ CallbackReturn
    \/ childAllocator
    \/ adopt

Spec == Init /\ [][Next]_vars

\* ================================================================ claims

NotCancelled(cb) == cb \notin cancelledFirst
Registered == [i \in 1 .. (nextId - 1) |-> i]
\* The handler keeps its contract (it never returns to the allocator) and the
\* control block lies between basePointer and endPointer.
Blameless ==
    /\ onOOM # "returns"
    /\ basePointer + SizeofBufferAllocator <= endPointer
candidateEnd(ptr, length) == (getAligned(ptr, ALIGNMENT) + length) % AddrSpace
Wraps(ptr, length) == getAligned(ptr, ALIGNMENT) + length >= AddrSpace

\* C1: when the first freeAllocator has returned, the callbacks it invoked,
\* leaving out the jobs cancelled before their invocation, are exactly the
\* registered jobs not so cancelled, each once, in registration order.
C1_CallbacksOnceInOrder ==
    (frees = 1 /\ pc = "idle" /\ fresh)
        => SelectSeq(invoked, NotCancelled) = SelectSeq(Registered, NotCancelled)

C1_Witness ==
    /\ frees = 1 /\ pc = "idle" /\ fresh
    /\ nAllocs > 0
    /\ invoked = <<1, 2>>

\* C2: after freeAllocator, the next allocate returns the address the first
\* allocate after construction returned (handlers keeping their contract).
C2_FirstAddressAgain ==
    [][\A length \in Sizes :
          (Allocate(length) /\ frees > 0 /\ fresh /\ firstAddr # NoBlock
             /\ Blameless /\ Len(allocs') = 1)
          => allocs'[1].addr = firstAddr]_vars

\* C3: in every state after a successful construction the cursor lies
\* between basePointer and endPointer, and these two never change.
C3_CursorWithinBounds ==
    [][/\ (status' = "live" /\ onOOM' # "returns")
            => (basePointer' <= pointer' /\ pointer' <= endPointer')
       /\ (status = "live" /\ status' = "live")
            => (basePointer' = basePointer /\ endPointer' = endPointer)]_vars

\* C4: the blocks handed out without error since construction, Job records
\* included, are pairwise disjoint byte ranges (handlers keeping their
\* contract).
C4_NoOverlap ==
    (frees = 0 /\ Blameless) =>
        \A i, j \in DOMAIN allocs :
            i < j => Bytes(allocs[i].addr, allocs[i].size)
                        \cap Bytes(allocs[j].addr, allocs[j].size) = {}

\* C5: an allocate with candidateEnd >= endPointer and a handler installed
\* raises OUT_OF_MEMORY exactly once and leaves the cursor where it was.
C5_OomKeepsCursor ==
    [][\A length \in Sizes :
          (Allocate(length) /\ onOOM # "none"
             /\ basePointer + SizeofBufferAllocator <= endPointer
             /\ candidateEnd(pointer, length) >= endPointer)
          => /\ Cardinality({i \in DOMAIN raised' :
                                raised'[i] = OUT_OF_MEMORY}) = 1
             /\ pointer' = pointer]_vars

\* C6: an allocate whose alignedCursor + size wraps the address width raises
\* OVERFLOW and returns no block (handlers keeping their contract).
C6_WrapRaisesOverflow ==
    [][\A length \in Sizes :
          (Allocate(length) /\ Blameless /\ Wraps(pointer, length))
          => /\ OVERFLOW \in Range(raised')
             /\ allocatorMalloc(pointer, endPointer, onOOM, length).fate
                   # "returned"]_vars

\* C7: every block handed out without error starts at a multiple of the
\* pointer size.
C7_Aligned ==
    \A i \in DOMAIN allocs : allocs[i].addr % ALIGNMENT = 0

C7_Witness ==
    /\ endPointer % ALIGNMENT # 0
    /\ Len(allocs) = 2
    /\ allocs[1].size % ALIGNMENT # 0
    /\ ~allocs[2].job
    /\ allocs[2].addr = allocs[1].addr + ALIGNMENT

\* C8: a job cancelled with success before its callback was invoked is not
\* invoked by freeAllocator.
C8_CancelledNeverInvoked ==
    cancelledFirst \cap Range(invoked) = {}

\* C9: the record of invoked callbacks changes only in steps of
\* freeAllocator: its entry and the return of one of its callbacks.
C9_OnlyFreeInvokes ==
    [][invoked' # invoked => (freeAllocator \/ CallbackReturn)]_vars

C9_Witness ==
    /\ raised # <<>>
    /\ onFree # NULL
    /\ frees = 0
    /\ pc = "idle"
    /\ invoked = <<>>

\* C10: construct refuses exactly when buffer+length lies below the aligned
\* start or leaves less than the control block; otherwise the arena starts
\* at the aligned start with the cursor behind the control block.
C10_ConstructRefusesExactly ==
    [][\A buffer \in Buffers, length \in Lengths :
          BufferAllocator_newWithIdentity(buffer, length) =>
            LET start == getAligned(buffer, ALIGNMENT)
                end == (buffer + length) % AddrSpace
                empty == end < start \/ end - start < SizeofBufferAllocator
            IN  /\ (status' = "null") <=> empty
                /\ ~empty =>
                      /\ status' = "live"
                      /\ basePointer' = start
                      /\ endPointer' = end
                      /\ pointer' = start + SizeofBufferAllocator
                      /\ onFree' = NULL
                      /\ onOOM' = "none"]_vars

\* What allocate(length) does to what the program observes: the cursor, the
\* codes raised, a fatal end, the block handed out and the job chain.
AsAllocate(length) ==
    LET m == allocatorMalloc(pointer, endPointer, onOOM, length)
        handedOut == m.fate = "returned" /\ m.raised = <<>>
    IN  /\ pointer' = m.pointer
        /\ raised' = m.raised
        /\ (status' = "aborted") <=> (m.fate = "aborted")
        /\ handedOut => /\ Len(allocs') = Len(allocs) + 1
                        /\ allocs'[Len(allocs')].addr = m.ret
        /\ ~handedOut => allocs' = allocs
        /\ UNCHANGED <<basePointer, endPointer, chain>>

\* C11: allocatorRealloc with original NULL and size n does what allocate(n)
\* does: the same block address, cursor and error (none, OUT_OF_MEMORY or
\* OVERFLOW), and the job chain is left alone.
C11_ReallocOfNullIsAllocate ==
    [][nAllocs' # nAllocs =>
          \A length \in Sizes :
             /\ Allocate(length) => AsAllocate(length)
             /\ allocatorRealloc(NULL, length) => AsAllocate(length)]_vars

C11_Witness ==
    /\ last.op = "realloc"
    /\ last.arg = NULL
    /\ onFree # NULL
    /\ Len(allocs) = 3
    /\ allocs[3].addr = allocs[1].addr + 2 * ALIGNMENT

\* C12: cancelling a job that is in the chain returns 0 and removes that job
\* only, the others keeping their order; cancelling a job that is no longer
\* in the chain returns -1 and changes nothing; neither ends the program.
C12_CancelRemovesThatJobOnly ==
    [][\A j \in DOMAIN jobs :
          (Cancel(j) \/ CallbackCancel(j)) =>
            LET c == ChainFrom(jobs, onFree)
                ret == removeOnFreeJob(jobs, onFree, j).ret
                Others(k) == k # j
            IN  /\ status' = status
                /\ UNCHANGED arena
                /\ IF j \in Range(c)
                   THEN /\ ret = 0
                        /\ ChainFrom(jobs', onFree') = SelectSeq(c, Others)
                        /\ \A k \in Range(c) : k # j => jobs'[k].cb = jobs[k].cb
                   ELSE /\ ret = -1
                        /\ UNCHANGED chain]_vars

C12_Witness ==
    /\ cancelledFirst = {1}
    /\ nextId = 3
    /\ onFree # NULL
    /\ jobs[onFree].cb = 2
    /\ jobs[onFree].next = NULL
    /\ frees = 0

\* C13: childAllocator and adopt end the program whenever they are called,
\* and leave the cursor, the bounds and the job chain as they were.
C13_StubsAlwaysFatal ==
    [][(childAllocator \/ adopt)
          => (status' = "aborted" /\ UNCHANGED <<arena, chain>>)]_vars

C13_Witness ==
    /\ status = "aborted"
    /\ raised = <<>>
    /\ onFree # NULL
    /\ Len(allocs) > 1
    /\ frees = 1

\* The non-empty originals a resize can be given, and what allocatorMalloc
\* makes of the call.
Originals == {allocs[i].addr : i \in Blocks} \ {NULL}
Carved(length) == allocatorMalloc(pointer, endPointer, onOOM, length)
HandedOut(length) ==
    Carved(length).fate = "returned" /\ Carved(length).raised = <<>>
Returned == allocs'[Len(allocs')].addr

\* C14: an allocate succeeds exactly when alignedCursor + size neither wraps
\* nor reaches endPointer; it then returns alignedCursor and leaves the
\* cursor at alignedCursor + size, the block lying between the control block
\* and endPointer - 1 (before any bulk-free, handlers keeping their contract).
C14_SucceedsExactlyWhenFits ==
    [][\A length \in Sizes :
          (Allocate(length) /\ Blameless /\ frees = 0) =>
            LET alignedCursor == getAligned(pointer, ALIGNMENT)
                fits == /\ alignedCursor + length < AddrSpace
                        /\ alignedCursor + length < endPointer
            IN  /\ HandedOut(length) <=> fits
                /\ HandedOut(length) =>
                      /\ Returned = alignedCursor
                      /\ pointer' = alignedCursor + length
                      /\ basePointer + SizeofBufferAllocator <= alignedCursor
                      /\ alignedCursor + length <= endPointer - 1]_vars

C17_CursorNeverDecreases ==
    [][(status = "live" /\ basePointer + SizeofBufferAllocator <= endPointer)
          => /\ frees' = frees => pointer' >= pointer
             /\ pointer' < pointer => pointer' = basePointer]_vars

\* C18: a register that allocatorMalloc lets through without a raise leaves
\* the cursor at least a Job record further and the new Job behind the jobs
\* already in the chain, these unchanged and in their order; a register
\* whose allocatorMalloc raises leaves the chain as it was (the cursor
\* standing between the control block and endPointer).
C18_RegisterAppendsAtTail ==
    [][(/\ onFreeRegister
        /\ basePointer + SizeofBufferAllocator <= pointer
        /\ pointer < endPointer) =>
          LET c == ChainFrom(jobs, onFree)
          IN  IF Carved(SizeofJob).raised = <<>>
              THEN status' = "live" =>
                     /\ pointer' >= pointer + SizeofJob
                     /\ ChainFrom(jobs', onFree')
                           = Append(c, Carved(SizeofJob).ret)
                     /\ \A k \in Range(c) : jobs'[k].cb = jobs[k].cb
              ELSE UNCHANGED chain]_vars

\* C19: when freeAllocator has returned, the job chain is empty.
C19_ChainEmptyAfterFree ==
    (frees > 0 /\ pc = "idle" /\ fresh /\ status = "live") => onFree = NULL

\* C20: allocatorCalloc(length, count) does what allocate of
\* (length * count) mod 2^w does: the same block address, cursor and error;
\* a product that wraps is not noticed.
C20_CallocIsAllocateOfProduct ==
    [][nAllocs' # nAllocs =>
          \A length \in CallocSizes, count \in Counts :
             allocatorCalloc(length, count)
                => AsAllocate((length * count) % AddrSpace)]_vars

C20_Witness ==
    /\ Len(allocs) = 2
    /\ allocs[1].size = 1
    /\ allocs[2].size = 0
    /\ allocs[2].addr = pointer
    /\ raised = <<>>
    /\ status = "live"

====
